---- MODULE Spec2Model ----
(***************************************************************************)
(* GrindLink: the create-and-broadcast flow of the API server              *)
(* (src/index.js) and the live list and form views of the React client     *)
(* (src/src/App.tsx).                                                      *)
(*                                                                         *)
(* Server: an Express handler runs to its first await atomically, the      *)
(* Firestore call resolves or rejects later, and the continuation after    *)
(* the await runs atomically again.  Client: a view mounts, sends its      *)
(* list request, opens a socket.io session, and afterwards reacts to the   *)
(* fetch response and to the events pushed on the session, in whatever     *)
(* order the network delivers them.                                        *)
(*                                                                         *)
(* The list views and the forms share no state with one another: a view    *)
(* only reads from the server and a form is one more caller of the POST    *)
(* endpoints.  The model therefore follows one list view (of either        *)
(* entity, chosen in Init) next to arbitrary callers of the API, and, in   *)
(* a second specification, one form.                                       *)
(***************************************************************************)
EXTENDS Integers, Sequences, FiniteSets, TLC

VARIABLES db, now, reqs, store, published, view, form

vars == <<db, now, reqs, store, published, view, form>>

(* Bound of the model: the number of create requests the server receives. *)
MaxCreates == 2

(***************************************************************************)
(* JavaScript values.  A field that may be undefined is a sequence of at   *)
(* most one value; an Invalid Date is the empty one too.                   *)
(***************************************************************************)
Undefined == <<>>

Some(v) == <<v>>

FalsyNum(f) == f = Undefined \/ f[1] = 0

FalsyStr(f) == f = Undefined \/ f[1] = ""

Entities == {"assignments", "users"}

(* new Date(s) of a date string: milliseconds since the epoch, or Invalid Date.
   The payloads of the model carry well-formed date strings only. *)
ParseDate(s) ==
  CASE s = "1970-01-02" -> Some(86400000)
    [] s = "1970-01-01T00:00:01.500Z" -> Some(1500)
    [] OTHER -> Undefined

(* Date.prototype.toISOString: the text is determined by the whole seconds
   and the milliseconds within the second. *)
toISOString(ms) == <<"ISO-8601", ms \div 1000, ms % 1000>>

(* Firestore stores a Date as a Timestamp of seconds and nanoseconds. *)
TimestampFromDate(ms) == [seconds |-> ms \div 1000, nanoseconds |-> (ms % 1000) * 1000000]

(* Timestamp.toDate() *)
toDate(ts) == ts.seconds * 1000 + ts.nanoseconds \div 1000000

(***************************************************************************)
(* Request bodies a caller may post.                                       *)
(***************************************************************************)
AssignmentBodies ==
  { [gig_id |-> Some(7), assignee_id |-> Some(3), due_date |-> Some("1970-01-01T00:00:01.500Z"), status |-> Some("pending")],
    [gig_id |-> Some(7), assignee_id |-> Some(3), due_date |-> Some("1970-01-02"), status |-> Undefined] }

UserBodies ==
  { [username |-> Some("ana"), bio |-> Undefined, skills |-> Some(<<"go", "rust", "">>)],
    [username |-> Some(""), bio |-> Some("hi"), skills |-> Undefined] }

Bodies(e) == IF e = "assignments" THEN AssignmentBodies ELSE UserBodies

(* The required-field checks of the two POST handlers. *)
MissingAssignmentField(body) ==
  FalsyNum(body.gig_id) \/ FalsyNum(body.assignee_id) \/ FalsyStr(body.due_date) \/ FalsyStr(body.status)

(* Mutant: only an absent username is refused, an empty one passes. *)
MissingUserField_AbsentOnly(body) == body.username = Undefined

MissingUserField(body) == FalsyStr(body.username)

MissingRequired(e, body) ==
  IF e = "assignments" THEN MissingAssignmentField(body) ELSE MissingUserField(body)

(* newAssignment / newUser: the object handed to collection.add(). *)
newAssignment(body, t) ==
  [gig_id |-> body.gig_id[1], assignee_id |-> body.assignee_id[1],
   due_date |-> ParseDate(body.due_date[1]), status |-> body.status[1], created_at |-> t]

(* Mutant: the submitted skills are not stored. *)
newUser_SkillsDropped(body, t) ==
  [username |-> body.username[1],
   bio |-> IF FalsyStr(body.bio) THEN "" ELSE body.bio[1],
   skills |-> <<>>,
   created_at |-> t]

newUser(body, t) ==
  [username |-> body.username[1],
   bio |-> IF FalsyStr(body.bio) THEN "" ELSE body.bio[1],
   skills |-> IF body.skills = Undefined THEN <<>> ELSE body.skills[1],
   created_at |-> t]

NewRecord(e, body, t) == IF e = "assignments" THEN newAssignment(body, t) ELSE newUser(body, t)

StoredDoc(e, id, rec) ==
  IF e = "assignments"
  THEN [id |-> id,
        data |-> [gig_id |-> rec.gig_id, assignee_id |-> rec.assignee_id,
                  due_date |-> TimestampFromDate(rec.due_date[1]), status |-> rec.status,
                  created_at |-> TimestampFromDate(rec.created_at)]]
  ELSE [id |-> id,
        data |-> [username |-> rec.username, bio |-> rec.bio, skills |-> rec.skills,
                  created_at |-> TimestampFromDate(rec.created_at)]]

(* createdAssignment / createdUser: the record emitted and returned by POST. *)
createdAssignment(id, rec) ==
  [id |-> id, gig_id |-> rec.gig_id, assignee_id |-> rec.assignee_id,
   due_date |-> toISOString(rec.due_date[1]), status |-> rec.status,
   created_at |-> toISOString(rec.created_at)]

createdUser(id, rec) ==
  [id |-> id, username |-> rec.username, bio |-> rec.bio, skills |-> rec.skills,
   created_at |-> toISOString(rec.created_at)]

Created(e, id, rec) == IF e = "assignments" THEN createdAssignment(id, rec) ELSE createdUser(id, rec)

(* One element of a GET response, built from a stored document. *)
(* Mutant: due_date is rebuilt from the stored seconds alone. *)
listedAssignment_WholeSeconds(doc) ==
  [id |-> doc.id, gig_id |-> doc.data.gig_id, assignee_id |-> doc.data.assignee_id,
   due_date |-> toISOString(doc.data.due_date.seconds * 1000), status |-> doc.data.status,
   created_at |-> toISOString(toDate(doc.data.created_at))]

listedAssignment(doc) ==
  [id |-> doc.id, gig_id |-> doc.data.gig_id, assignee_id |-> doc.data.assignee_id,
   due_date |-> toISOString(toDate(doc.data.due_date)), status |-> doc.data.status,
   created_at |-> toISOString(toDate(doc.data.created_at))]

listedUser(doc) ==
  [id |-> doc.id, username |-> doc.data.username, bio |-> doc.data.bio, skills |-> doc.data.skills,
   created_at |-> toISOString(toDate(doc.data.created_at))]

Listed(e, doc) == IF e = "assignments" THEN listedAssignment(doc) ELSE listedUser(doc)

(* Timestamps compare by seconds, then nanoseconds. *)
TsGeq(a, b) == a.seconds > b.seconds \/ (a.seconds = b.seconds /\ a.nanoseconds >= b.nanoseconds)

(* Mutant: ascending order. *)
RECURSIVE OrderByCreatedAtDesc_Asc(_)
OrderByCreatedAtDesc_Asc(docs) ==
  IF docs = {} THEN {<<>>}
  ELSE UNION { {<<d>> \o s : s \in OrderByCreatedAtDesc_Asc(docs \ {d})} :
               d \in {x \in docs : \A y \in docs : TsGeq(y.data.created_at, x.data.created_at)} }

(* orderBy('created_at', 'desc'): every ordering of the collection's documents
   in which created_at never increases; the order among equal created_at is
   the store's. *)
RECURSIVE OrderByCreatedAtDesc(_)
OrderByCreatedAtDesc(docs) ==
  IF docs = {} THEN {<<>>}
  ELSE UNION { {<<d>> \o s : s \in OrderByCreatedAtDesc(docs \ {d})} :
               d \in {x \in docs : \A y \in docs : TsGeq(x.data.created_at, y.data.created_at)} }

(***************************************************************************)
(* Initial state: the process has started.  new Firestore() either         *)
(* returned the client or threw (db stays undefined); the list view and    *)
(* the form are not yet rendered.                                          *)
(***************************************************************************)
InitView(e) ==
  [ent |-> e, phase |-> "unmounted", fetch |-> "idle",
   fres |-> [status |-> 0, data |-> <<>>, pubAt |-> 0],
   sock |-> "none", inbox |-> <<>>, received |-> <<>>, known |-> {},
   items |-> <<>>, loading |-> TRUE, error |-> Undefined]

Init ==
  /\ db \in BOOLEAN
  /\ now = 0
  /\ reqs = <<>>
  /\ store = [e \in Entities |-> {}]
  /\ published = [e \in Entities |-> <<>>]
  /\ \E e \in Entities : view = InitView(e)
  /\ form = <<>>

(***************************************************************************)
(* POST /api/assignments and POST /api/users, up to the await of add().    *)
(***************************************************************************)
Responded(e, body, status, error) ==
  [ent |-> e, body |-> body, pc |-> "done", status |-> status, rec |-> Undefined, out |-> Undefined,
   error |-> error]

MissingText(e) == IF e = "assignments" THEN "Missing required fields." ELSE "Username is a required field."

(* Mutant: the payload is validated before the store client is looked at. *)
HandleCreate_ValidateFirst(e, body, t) ==
  IF MissingRequired(e, body) THEN Responded(e, body, 400, MissingText(e))
  ELSE IF ~db THEN Responded(e, body, 500, "Database not initialized.")
  ELSE [ent |-> e, body |-> body, pc |-> "add", status |-> 0,
        rec |-> Some(NewRecord(e, body, t)), out |-> Undefined, error |-> ""]

HandleCreate(e, body, t) ==
  IF ~db THEN Responded(e, body, 500, "Database not initialized.")
  ELSE IF MissingRequired(e, body) THEN Responded(e, body, 400, MissingText(e))
  ELSE [ent |-> e, body |-> body, pc |-> "add", status |-> 0,
        rec |-> Some(NewRecord(e, body, t)), out |-> Undefined, error |-> ""]

(* now is the latest reading of the server clock (0: not read yet): a handler
   that reaches new Date() reads the same millisecond as the reading before
   it, or a later one. *)
Elapsed(e, body) ==
  IF HandleCreate(e, body, now).pc = "done" THEN {0}
  ELSE IF now = 0 THEN {1}
  ELSE {0, 1}

Post(e, body) ==
  /\ Len(reqs) < MaxCreates
  /\ \E d \in Elapsed(e, body) :
       /\ now' = now + d
       /\ reqs' = Append(reqs, HandleCreate(e, body, now'))
  /\ UNCHANGED <<db, store, published, view, form>>

(* Mutant: the write replaces what the collection held. *)
StoreAdd_Replaces(i) ==
  /\ reqs[i].pc = "add"
  /\ store' = [store EXCEPT ![reqs[i].ent] = {StoredDoc(reqs[i].ent, i, reqs[i].rec[1])}]
  /\ reqs' = [reqs EXCEPT ![i].pc = "acked"]
  /\ UNCHANGED <<db, now, published, view, form>>

(* The store performs the write of add() and acknowledges it; the document
   id is the store's, unique per add(). *)
StoreAdd(i) ==
  /\ reqs[i].pc = "add"
  /\ store' = [store EXCEPT ![reqs[i].ent] = @ \cup {StoredDoc(reqs[i].ent, i, reqs[i].rec[1])}]
  /\ reqs' = [reqs EXCEPT ![i].pc = "acked"]
  /\ UNCHANGED <<db, now, published, view, form>>

(* Mutant: the failure path emits the record as well. *)
PostCatch_Emits(i) ==
  /\ reqs[i].pc = "add"
  /\ LET record == Created(reqs[i].ent, i, reqs[i].rec[1])
     IN /\ published' = [published EXCEPT ![reqs[i].ent] = Append(@, record)]
        /\ view' = IF view.ent = reqs[i].ent /\ view.sock = "connected"
                   THEN [view EXCEPT !.inbox = Append(@, record)] ELSE view
  /\ reqs' = [reqs EXCEPT ![i].pc = "done", ![i].status = 500, ![i].error = "Internal server error."]
  /\ UNCHANGED <<db, now, store, form>>

(* add() rejects (the store is unavailable or refuses the object): the catch
   block answers 500. *)
PostCatch(i) ==
  /\ reqs[i].pc = "add"
  /\ reqs' = [reqs EXCEPT ![i].pc = "done", ![i].status = 500, ![i].error = "Internal server error."]
  /\ UNCHANGED <<db, now, store, published, view, form>>

(* io.emit(topic, record): the record is queued on every established session;
   a session whose client registered no handler for the topic drops it. *)
Emit(e, record) ==
  IF view.ent = e /\ view.sock = "connected"
  THEN [view EXCEPT !.inbox = Append(@, record)]
  ELSE view

(* Mutant: add() is not awaited, the handler goes on as soon as it is called. *)
AddResolved_NotAwaited(r) == r.pc \in {"add", "acked"}

(* await add(): the handler goes on once the write is acknowledged. *)
AddResolved(r) == r.pc = "acked"

(* Mutant: the handler answers 201 without emitting. *)
PostResume_NoEmit(i) ==
  /\ AddResolved(reqs[i])
  /\ reqs' = [reqs EXCEPT ![i].pc = "done", ![i].status = 201,
                           ![i].out = Some(Created(reqs[i].ent, i, reqs[i].rec[1]))]
  /\ UNCHANGED <<db, now, store, published, view, form>>

(* Mutant: the record is emitted twice. *)
PostResume_EmitsTwice(i) ==
  /\ AddResolved(reqs[i])
  /\ LET e == reqs[i].ent
         record == Created(e, i, reqs[i].rec[1])
     IN /\ published' = [published EXCEPT ![e] = Append(Append(@, record), record)]
        /\ view' = IF view.ent = e /\ view.sock = "connected"
                   THEN [view EXCEPT !.inbox = Append(Append(@, record), record)] ELSE view
        /\ reqs' = [reqs EXCEPT ![i].pc = "done", ![i].status = 201, ![i].out = Some(record)]
  /\ UNCHANGED <<db, now, store, form>>

(* After the await: build the created record, emit it, answer 201. *)
PostResume(i) ==
  /\ AddResolved(reqs[i])
  /\ LET e == reqs[i].ent
         record == Created(e, i, reqs[i].rec[1])
     IN /\ published' = [published EXCEPT ![e] = Append(@, record)]
        /\ view' = Emit(e, record)
        /\ reqs' = [reqs EXCEPT ![i].pc = "done", ![i].status = 201, ![i].out = Some(record)]
  /\ UNCHANGED <<db, now, store, form>>

(***************************************************************************)
(* GET /api/assignments and GET /api/users, serving the fetch of the view. *)
(***************************************************************************)
ServerError(e) == [status |-> 500, data |-> <<>>, pubAt |-> Len(published[e])]

ListResponses(e) ==
  IF ~db THEN {ServerError(e)}
  ELSE {ServerError(e)}
       \cup { [status |-> 200, data |-> [i \in DOMAIN s |-> Listed(e, s[i])], pubAt |-> Len(published[e])] :
                s \in OrderByCreatedAtDesc(store[e]) }

Get ==
  /\ view.fetch = "sent"
  /\ \E r \in ListResponses(view.ent) :
       view' = [view EXCEPT !.fetch = "responded", !.fres = r]
  /\ UNCHANGED <<db, now, reqs, store, published, form>>

(***************************************************************************)
(* AssignmentsList and UserProfilesList.                                   *)
(***************************************************************************)
(* useEffect on mount: fetch...() sends the list request, io() starts a session. *)
Mount ==
  /\ view.phase = "unmounted"
  /\ view' = [view EXCEPT !.phase = "mounted", !.fetch = "sent", !.sock = "connecting"]
  /\ UNCHANGED <<db, now, reqs, store, published, form>>

Completed(e) == {i \in DOMAIN reqs : reqs[i].ent = e /\ reqs[i].status = 201}

(* io.on('connection'): the server has the session; from now on io.emit reaches it. *)
SocketConnect ==
  /\ view.sock = "connecting"
  /\ view' = [view EXCEPT !.sock = "connected", !.known = Completed(view.ent)]
  /\ UNCHANGED <<db, now, reqs, store, published, form>>

(* The fetch response arrives: setAssignments(data) or setError, then setLoading(false).
   A state update of an unmounted component changes nothing. *)
ApplyFetch(v, r) ==
  IF v.phase # "mounted" THEN [v EXCEPT !.fetch = "done"]
  ELSE IF r.status = 200
  THEN [v EXCEPT !.fetch = "done", !.items = r.data, !.loading = FALSE]
  ELSE [v EXCEPT !.fetch = "done", !.error = Some("fetch failed"), !.loading = FALSE]

FetchResolve ==
  /\ view.fetch = "responded"
  /\ view' = ApplyFetch(view, view.fres)
  /\ UNCHANGED <<db, now, reqs, store, published, form>>

(* fetch() rejects with a network error: no response arrives. *)
FetchNetworkError ==
  /\ view.fetch = "sent"
  /\ view' = ApplyFetch(view, [status |-> 0, data |-> <<>>, pubAt |-> 0])
  /\ UNCHANGED <<db, now, reqs, store, published, form>>

(* Mutant: the record is put at the end of the displayed sequence. *)
OnEvent_Appends(v, record) ==
  [v EXCEPT !.items = @ \o <<record>>, !.received = Append(@, record), !.inbox = Tail(@)]

(* Mutant: a record whose id is displayed already is not added again. *)
OnEvent_SkipsKnownId(v, record) ==
  [v EXCEPT !.items = IF \E k \in DOMAIN @ : @[k].id = record.id THEN @ ELSE <<record>> \o @,
            !.received = Append(@, record), !.inbox = Tail(@)]

(* socket.on(topic, record => set...(current => [record, ...current])) *)
OnEvent(v, record) ==
  [v EXCEPT !.items = <<record>> \o @, !.received = Append(@, record), !.inbox = Tail(@)]

Deliver ==
  /\ view.sock = "connected"
  /\ view.inbox # <<>>
  /\ view' = OnEvent(view, Head(view.inbox))
  /\ UNCHANGED <<db, now, reqs, store, published, form>>

(* Mutant: the cleanup leaves the session open. *)
Unmount_KeepsSession ==
  /\ view.phase = "mounted"
  /\ view' = [view EXCEPT !.phase = "torn"]
  /\ UNCHANGED <<db, now, reqs, store, published, form>>

(* The effect's cleanup: socket.disconnect(). *)
Unmount ==
  /\ view.phase = "mounted"
  /\ view' = [view EXCEPT !.phase = "torn", !.sock = "closed", !.inbox = <<>>]
  /\ UNCHANGED <<db, now, reqs, store, published, form>>

Next ==
  \/ \E e \in Entities : \E body \in Bodies(e) : Post(e, body)
  \/ \E i \in DOMAIN reqs : StoreAdd(i)
  \/ \E i \in DOMAIN reqs : PostCatch(i)
  \/ \E i \in DOMAIN reqs : PostResume(i)
  \/ Get
  \/ Mount
  \/ SocketConnect
  \/ FetchResolve
  \/ FetchNetworkError
  \/ Deliver
  \/ Unmount

Spec == Init /\ [][Next]_vars

(***************************************************************************)
(* AssignmentForm and UserProfileForm.                                     *)
(***************************************************************************)
DefaultFields(e) ==
  IF e = "assignments"
  THEN [gigId |-> "", assigneeId |-> "", dueDate |-> "", status |-> "in_progress"]
  ELSE [username |-> "", bio |-> "", skills |-> ""]

InitFormView(e) ==
  [ent |-> e, fields |-> DefaultFields(e), loading |-> FALSE,
   successMessage |-> Undefined, error |-> Undefined,
   call |-> "none", body |-> Undefined, req |-> 0]

(* What the user can put into an input: <<field, value>>. *)
FieldValues(e) ==
  IF e = "assignments"
  THEN {<<"gigId", "">>, <<"gigId", "0">>, <<"gigId", "7">>,
        <<"assigneeId", "">>, <<"assigneeId", "3">>,
        <<"dueDate", "">>, <<"dueDate", "1970-01-02">>,
        <<"status", "in_progress">>, <<"status", "pending">>}
  ELSE {<<"username", "">>, <<"username", "ana">>,
        <<"bio", "hi">>,
        <<"skills", "">>, <<"skills", "go, rust, ">>}

(* parseInt(s, 10); NaN is sent as null by JSON.stringify. *)
parseInt(s) ==
  CASE s = "0" -> Some(0)
    [] s = "3" -> Some(3)
    [] s = "7" -> Some(7)
    [] OTHER -> Undefined

(* skills.split(',').map(s => s.trim()) *)
SplitTrim(s) ==
  CASE s = "go, rust, " -> <<"go", "rust", "">>
    [] OTHER -> <<s>>

(* Mutant: the client sends whatever the inputs hold. *)
ClientMissing_Never(e, fields) == FALSE

(* The client-side required-field checks. *)
ClientMissing(e, fields) ==
  IF e = "assignments"
  THEN fields.gigId = "" \/ fields.assigneeId = "" \/ fields.dueDate = "" \/ fields.status = ""
  ELSE fields.username = ""

ClientMissingText(e) == IF e = "assignments" THEN "Please fill in all fields." ELSE "Username is required."

(* The JSON body of the create request. *)
RequestBody(e, fields) ==
  IF e = "assignments"
  THEN [gig_id |-> parseInt(fields.gigId), assignee_id |-> parseInt(fields.assigneeId),
        due_date |-> Some(fields.dueDate), status |-> Some(fields.status)]
  ELSE [username |-> Some(fields.username), bio |-> Some(fields.bio),
        skills |-> Some(SplitTrim(fields.skills))]

(* onChange of an input. *)
Change(field, value) ==
  /\ form' = [form EXCEPT !.fields[field] = value]
  /\ UNCHANGED <<db, now, reqs, store, published, view>>

(* Mutant: the previous success message is not cleared. *)
StartSubmit_KeepSuccess(f) == [f EXCEPT !.loading = TRUE, !.error = Undefined]

(* handleSubmit: setLoading(true); setError(null); setSuccessMessage(null) *)
StartSubmit(f) == [f EXCEPT !.loading = TRUE, !.error = Undefined, !.successMessage = Undefined]

(* handleSubmit up to the await of fetch(); the submit button is disabled
   while loading. *)
Submit ==
  /\ ~form.loading
  /\ form' = IF ClientMissing(form.ent, form.fields)
             THEN [StartSubmit(form) EXCEPT !.error = Some(ClientMissingText(form.ent)), !.loading = FALSE]
             ELSE [StartSubmit(form) EXCEPT !.call = "sent",
                                            !.body = Some(RequestBody(form.ent, form.fields))]
  /\ UNCHANGED <<db, now, reqs, store, published, view>>

(* The form's request reaches its POST handler; two requests of one form are
   at least a round trip apart. *)
FormPost ==
  /\ form.call = "sent"
  /\ Len(reqs) < MaxCreates
  /\ now' = IF HandleCreate(form.ent, form.body[1], now).pc = "done" THEN now ELSE now + 1
  /\ reqs' = Append(reqs, HandleCreate(form.ent, form.body[1], now'))
  /\ form' = [form EXCEPT !.call = "handled", !.req = Len(reqs) + 1]
  /\ UNCHANGED <<db, store, published, view>>

SuccessText(e) ==
  IF e = "assignments" THEN "Assignment created successfully!" ELSE "User profile created successfully!"

FailedText(e) ==
  IF e = "assignments" THEN "Failed to add assignment." ELSE "Failed to create user profile."

(* Mutant: the inputs are cleared whatever the response. *)
ApplyResponse_AlwaysClears(f, r) ==
  IF r.status = 201
  THEN [f EXCEPT !.successMessage = Some(SuccessText(f.ent)), !.fields = DefaultFields(f.ent),
                 !.loading = FALSE, !.call = "none", !.body = Undefined, !.req = 0]
  ELSE [f EXCEPT !.error = Some(IF r.error = "" THEN FailedText(f.ent) ELSE r.error),
                 !.fields = DefaultFields(f.ent), !.loading = FALSE, !.call = "none",
                 !.body = Undefined, !.req = 0]

(* handleSubmit after the await: response.ok or the thrown Error, then finally. *)
ApplyResponse(f, r) ==
  IF r.status = 201
  THEN [f EXCEPT !.successMessage = Some(SuccessText(f.ent)), !.fields = DefaultFields(f.ent),
                 !.loading = FALSE, !.call = "none", !.body = Undefined, !.req = 0]
  ELSE [f EXCEPT !.error = Some(IF r.error = "" THEN FailedText(f.ent) ELSE r.error),
                 !.loading = FALSE, !.call = "none",
                 !.body = Undefined, !.req = 0]

FormResolve ==
  /\ form.call = "handled"
  /\ reqs[form.req].status # 0
  /\ form' = ApplyResponse(form, reqs[form.req])
  /\ UNCHANGED <<db, now, reqs, store, published, view>>

(* Mutant: the rejection of fetch() skips the finally block. *)
FormNetworkError_StaysLoading ==
  /\ form.call \in {"sent", "handled"}
  /\ form' = [form EXCEPT !.error = Some("Failed to fetch"), !.call = "none",
                          !.body = Undefined, !.req = 0]
  /\ UNCHANGED <<db, now, reqs, store, published, view>>

(* fetch() rejects with a network error; a request the server already has
   is handled to its end all the same. *)
FormNetworkError ==
  /\ form.call \in {"sent", "handled"}
  /\ form' = [form EXCEPT !.error = Some("Failed to fetch"), !.loading = FALSE, !.call = "none",
                          !.body = Undefined, !.req = 0]
  /\ UNCHANGED <<db, now, reqs, store, published, view>>

InitForm ==
  /\ db \in BOOLEAN
  /\ now = 0
  /\ reqs = <<>>
  /\ store = [e \in Entities |-> {}]
  /\ published = [e \in Entities |-> <<>>]
  /\ view = InitView("assignments")
  /\ \E e \in Entities : form = InitFormView(e)

NextForm ==
  \/ \E fv \in FieldValues(form.ent) : Change(fv[1], fv[2])
  \/ Submit
  \/ FormPost
  \/ \E i \in DOMAIN reqs : StoreAdd(i)
  \/ \E i \in DOMAIN reqs : PostCatch(i)
  \/ \E i \in DOMAIN reqs : PostResume(i)
  \/ FormResolve
  \/ FormNetworkError

SpecForm == InitForm /\ [][NextForm]_vars

(* The continuation of handleSubmit runs once the response has arrived: a
   settled promise's reaction is run by the event loop. *)
SpecFormLive == SpecForm /\ WF_vars(FormResolve)

(***************************************************************************)
(* Vocabulary of the properties.                                           *)
(***************************************************************************)
Ids(s) == {s[k].id : k \in DOMAIN s}

Count(s, id) == Cardinality({k \in DOMAIN s : s[k].id = id})

StoredIds(e) == {doc.id : doc \in store[e]}

(* The create requests whose payload misses a required field: one that is
   absent or falsy (undefined, 0 or the empty string). *)
Incomplete ==
  {i \in DOMAIN reqs :
     LET b == reqs[i].body
     IN IF reqs[i].ent = "assignments"
        THEN \/ b.gig_id = Undefined \/ b.gig_id = Some(0)
             \/ b.assignee_id = Undefined \/ b.assignee_id = Some(0)
             \/ b.due_date = Undefined \/ b.due_date = Some("")
             \/ b.status = Undefined \/ b.status = Some("")
        ELSE b.username = Undefined \/ b.username = Some("")}

(* The list view's initial fetch has been applied and succeeded. *)
FetchSucceeded == view.phase = "mounted" /\ view.fetch = "done" /\ view.error = Undefined

(* ISO-8601 texts of UTC instants compare as the instants do. *)
IsoGeq(a, b) == a[2] > b[2] \/ (a[2] = b[2] /\ a[3] >= b[3])

(* C1, as amended: a create request whose payload misses a required field is
   answered at once, with 400 when the store client exists and with 500 when
   it does not; it writes no document and emits no event, so every stored
   document and every emitted event belongs to a request with a complete
   payload. *)
C1_IncompleteRejected ==
  /\ \A i \in Incomplete :
       /\ reqs[i].pc = "done"
       /\ reqs[i].status = IF db THEN 400 ELSE 500
       /\ i \notin StoredIds(reqs[i].ent)
       /\ i \notin Ids(published[reqs[i].ent])
  /\ \A e \in Entities :
       /\ Cardinality(store[e]) <= Cardinality({i \in DOMAIN reqs : reqs[i].ent = e} \ Incomplete)
       /\ Len(published[e]) <= Cardinality({i \in DOMAIN reqs : reqs[i].ent = e} \ Incomplete)

(* C1 witness: with the store client present, an assignment without status and
   a user with an empty username were both answered 400. *)
C1_Witness ==
  /\ db
  /\ \E i, j \in Incomplete :
       /\ reqs[i].ent = "assignments" /\ reqs[i].status = 400
       /\ reqs[j].ent = "users" /\ reqs[j].status = 400

(* C1 as stated: every create request with a missing required field is
   answered 400, writes nothing and emits nothing. *)
C1_AsStated ==
  \A i \in Incomplete :
    /\ reqs[i].status = 400
    /\ i \notin StoredIds(reqs[i].ent)
    /\ i \notin Ids(published[reqs[i].ent])

(* C2: every record published on new_assignment / new_user, and so every
   record queued for or received by the list view, is a document of the
   collection; and a list response read after a record was published
   contains that record. *)
C2_BroadcastAfterWrite ==
  /\ \A e \in Entities : Ids(published[e]) \subseteq StoredIds(e)
  /\ Ids(view.inbox) \cup Ids(view.received) \subseteq StoredIds(view.ent)
  /\ view.fres.status = 200 =>
       \A k \in 1..view.fres.pubAt : published[view.ent][k].id \in Ids(view.fres.data)

(* C2 witness: the view received an event and its list response, read after
   the publication, holds the record. *)
C2_Witness ==
  /\ view.fres.status = 200
  /\ view.fres.pubAt >= 1
  /\ view.received # <<>>

(* C3: a create request whose add() was called and failed ends with 500 and
   no event carries its record; every published record belongs to a request
   whose write was acknowledged and which was answered 201. *)
C3_NoBroadcastOnStoreFailure ==
  /\ \A i \in DOMAIN reqs :
       (reqs[i].rec # Undefined /\ reqs[i].pc = "done" /\ i \notin StoredIds(reqs[i].ent)) =>
         /\ reqs[i].status = 500
         /\ i \notin Ids(published[reqs[i].ent])
         /\ i \notin Ids(view.inbox) \cup Ids(view.received)
  /\ \A e \in Entities : \A k \in DOMAIN published[e] :
       LET i == published[e][k].id
       IN i \in DOMAIN reqs /\ reqs[i].ent = e /\ reqs[i].status = 201 /\ i \in StoredIds(e)

(* C3 witness: a write failed under the eyes of a connected view of that entity,
   while another create of the entity succeeded. *)
C3_Witness ==
  /\ view.sock = "connected"
  /\ \E i, j \in DOMAIN reqs :
       /\ reqs[i].ent = view.ent /\ reqs[i].rec # Undefined /\ reqs[i].status = 500
       /\ reqs[j].ent = view.ent /\ reqs[j].status = 201

(* C4 as stated: once the fetch response and all delivered events have been
   processed by a mounted view whose fetch succeeded, every record received
   as an event and every record of the snapshot is displayed. *)
C4_AsStated ==
  (FetchSucceeded /\ view.inbox = <<>>) =>
    (Ids(view.received) \cup Ids(view.fres.data)) \subseteq Ids(view.items)

(* The events the view has been handed or has queued on its session. *)
Events == view.received \o view.inbox

(* C5: while the view's session is established, every record created since
   it was established is on the session exactly once (queued or received),
   no record is on it twice, and an event's payload equals the element the
   list endpoint returns for that record. *)
C5_OneEventEqualToListed ==
  /\ view.sock = "connected" =>
       \A i \in Completed(view.ent) \ view.known : Count(Events, i) = 1
  /\ \A i \in Ids(Events) : Count(Events, i) = 1
  /\ \A e \in Entities : \A k \in DOMAIN published[e] : \A doc \in store[e] :
       doc.id = published[e][k].id => Listed(e, doc) = published[e][k]
  /\ \A k \in DOMAIN Events : \E doc \in store[view.ent] : Listed(view.ent, doc) = Events[k]
  /\ view.fres.status = 200 =>
       \A k \in DOMAIN Events : \A m \in DOMAIN view.fres.data :
         Events[k].id = view.fres.data[m].id => Events[k] = view.fres.data[m]

(* C5 witness: the view received the event of an assignment and a list
   response contains that record. *)
C5_Witness ==
  /\ view.ent = "assignments"
  /\ view.fres.status = 200
  /\ \E k \in DOMAIN view.received : view.received[k].id \in Ids(view.fres.data)

(* C6 as stated: a record whose create completed before the view's session
   was established is never on the session, and is contained in the view's
   successful initial fetch. *)
C6_AsStated ==
  \A i \in view.known :
    /\ Count(Events, i) = 0
    /\ FetchSucceeded => i \in Ids(view.fres.data)

(* The record a successful create is to be listed as: the submitted fields,
   the id and the created_at returned for the create. *)
Expected(i) ==
  LET b == reqs[i].body
      o == reqs[i].out[1]
  IN IF reqs[i].ent = "assignments"
     THEN [id |-> o.id, gig_id |-> b.gig_id[1], assignee_id |-> b.assignee_id[1],
           due_date |-> toISOString(ParseDate(b.due_date[1])[1]), status |-> b.status[1],
           created_at |-> o.created_at]
     ELSE [id |-> o.id, username |-> b.username[1],
           bio |-> IF b.bio = Undefined THEN "" ELSE b.bio[1],
           skills |-> IF b.skills = Undefined THEN <<>> ELSE b.skills[1],
           created_at |-> o.created_at]

ListedOnce(data, i) ==
  /\ Count(data, i) = 1
  /\ \A k \in DOMAIN data : data[k].id = i => data[k] = Expected(i)

(* C7: for every create answered 201, every list response the endpoint can
   produce from then on, and the view's list response when it was read after
   that create, has exactly one record with the create's id, and it carries
   the submitted fields and the create's created_at. *)
C7_ListedExactlyOnce ==
  /\ \A e \in Entities : \A r \in ListResponses(e) :
       r.status = 200 => \A i \in Completed(e) : ListedOnce(r.data, i)
  /\ view.fres.status = 200 =>
       \A k \in 1..view.fres.pubAt : ListedOnce(view.fres.data, published[view.ent][k].id)

(* C7 witness: two users were created and the view's list response, read
   after both, was answered 200. *)
C7_Witness ==
  /\ view.ent = "users"
  /\ view.fres.status = 200
  /\ view.fres.pubAt = 2

SortedDesc(data) ==
  \A a, b \in DOMAIN data : a < b => IsoGeq(data[a].created_at, data[b].created_at)

(* C8: every 200 list response is ordered by created_at descending, and the
   step that applies the successful initial fetch leaves the view displaying
   exactly that response. *)
C8_SortedAndShown ==
  /\ [](/\ \A e \in Entities : \A r \in ListResponses(e) : SortedDesc(r.data)
        /\ SortedDesc(view.fres.data))
  /\ [][(view.fetch = "responded" /\ view'.fetch = "done" /\ view.phase = "mounted"
         /\ view'.error = Undefined) => view'.items = view.fres.data]_vars

(* C8 witness: a successful fetch of two records with different created_at
   was applied, after an event had been received. *)
C8_Witness ==
  /\ FetchSucceeded
  /\ view.received # <<>>
  /\ Len(view.fres.data) = 2
  /\ view.fres.data[1].created_at # view.fres.data[2].created_at

(* C9: without a store client every create request is answered 500 at once,
   every list request is answered 500, nothing is stored and nothing is
   emitted. *)
C9_InitFailureFailsAll ==
  ~db =>
    /\ \A i \in DOMAIN reqs : reqs[i].pc = "done" /\ reqs[i].status = 500
    /\ \A e \in Entities : store[e] = {} /\ published[e] = <<>>
    /\ \A e \in Entities : \A r \in ListResponses(e) : r.status = 500
    /\ view.fetch = "responded" => view.fres.status = 500
    /\ view.fres.status # 200
    /\ Events = <<>> /\ view.items = <<>>

(* C9 witness: without a store client, a complete and an incomplete create
   and the view's list request were all answered 500. *)
C9_Witness ==
  /\ ~db
  /\ view.fres.status = 500
  /\ \E i, j \in DOMAIN reqs : i \in Incomplete /\ j \notin Incomplete

BothMessages(f) == f.successMessage # Undefined /\ f.error # Undefined

OneMessage(f) == (f.successMessage # Undefined) # (f.error # Undefined)

(* C10: a form never shows the success message and the failure message
   together; a step that starts a submission leaves both cleared while the
   request is awaited, and a step that ends one (the client-side check, the
   response, a network error) leaves exactly one of them set. *)
C10_OneOutcomeMessage ==
  /\ [](~BothMessages(form) /\ (form.loading => form.successMessage = Undefined /\ form.error = Undefined))
  /\ [][(form.loading # form'.loading \/ form.successMessage # form'.successMessage
           \/ form.error # form'.error)
        => IF form'.loading
           THEN form'.successMessage = Undefined /\ form'.error = Undefined
           ELSE OneMessage(form')]_vars

(* C10 witness: a failure message is shown after an earlier submission of
   the same form had succeeded. *)
C10_Witness ==
  /\ form.error # Undefined
  /\ ~form.loading
  /\ \E i \in DOMAIN reqs : reqs[i].status = 201

(* A step of the submit handler: it changes the loading flag or a message;
   typing into an input changes the fields alone. *)
HandlerStep ==
  \/ form.loading # form'.loading
  \/ form.successMessage # form'.successMessage
  \/ form.error # form'.error

(* C11: a step of the submit handler that leaves the success message set puts
   every input field back to the value the form was rendered with, and every
   other step of the handler (the start of a submission, the client-side
   check, a 400 or 500 response, a network error) leaves every input field
   as it is. *)
C11_FieldsResetIffSuccess ==
  [][HandlerStep =>
       IF form'.successMessage # Undefined
       THEN form'.fields = InitFormView(form.ent).fields
       ELSE form'.fields = form.fields]_vars

(* C11 witness: after a first submission succeeded the inputs were filled again,
   and the second submission, refused by the server, left them filled. *)
C11_Witness ==
  /\ ~form.loading
  /\ form.error \in {Some("Internal server error."), Some("Missing required fields.")}
  /\ form.fields # InitFormView(form.ent).fields
  /\ Len(reqs) = 2
  /\ reqs[1].status = 201

(* The inputs of a form miss a required value. *)
EmptyRequired(f) ==
  IF f.ent = "assignments"
  THEN f.fields.gigId = "" \/ f.fields.assigneeId = "" \/ f.fields.dueDate = "" \/ f.fields.status = ""
  ELSE f.fields.username = ""

(* C12: a submission started while a required input is empty ends at once
   with the failure message set, and sends nothing: no create request reaches
   the server, nothing is written and nothing is emitted by that step; and a
   create request reaches the server only for a submission that passed the
   check. *)
C12_ClientCheckBeforeNetwork ==
  /\ [][(~form.loading /\ EmptyRequired(form) /\ form' # form /\ form'.fields = form.fields) =>
          /\ form'.error = Some(IF form.ent = "assignments" THEN "Please fill in all fields."
                                ELSE "Username is required.")
          /\ form'.successMessage = Undefined
          /\ ~form'.loading /\ form'.call = "none"
          /\ reqs' = reqs /\ store' = store /\ published' = published]_vars
  /\ [][Len(reqs') > Len(reqs) =>
          /\ form.call = "sent"
          /\ reqs'[Len(reqs')].body = form.body[1]
          /\ IF form.ent = "assignments"
             THEN /\ form.body[1].gig_id # Undefined /\ form.body[1].assignee_id # Undefined
                  /\ form.body[1].due_date # Some("") /\ form.body[1].status # Some("")
             ELSE form.body[1].username # Some("")]_vars

(* C12 witness: a partly filled assignment form was submitted and refused by
   the client-side check after an earlier submission had succeeded; the
   server has seen the earlier request only. *)
C12_Witness ==
  /\ form.ent = "assignments"
  /\ form.error = Some("Please fill in all fields.")
  /\ form.fields.gigId = "7" /\ form.fields.dueDate = ""
  /\ Len(reqs) = 1 /\ reqs[1].status = 201

(* C13: a view that was torn down has its session closed and nothing queued
   on it, and from then on no step delivers an event to it or changes its
   displayed sequence, whatever is published meanwhile. *)
C13_ReleasedOnTeardown ==
  /\ [](view.phase = "torn" => view.sock = "closed" /\ view.inbox = <<>>)
  /\ [][view.phase = "torn" =>
          /\ view'.phase = "torn"
          /\ view'.received = view.received
          /\ view'.items = view.items]_vars

(* C13 witness: the view received an event, was torn down, and a create of
   its entity that was answered 201 never reached it. *)
C13_Witness ==
  /\ view.phase = "torn"
  /\ view.received # <<>>
  /\ \E i \in Completed(view.ent) \ view.known : i \notin Ids(view.received)

(* C14: no step removes or changes a document of a collection; no two
   documents of a collection share an id; and the id and created_at returned
   for a create are those of its document for good. *)
C14_AppendOnly ==
  /\ [][\A e \in Entities : store[e] \subseteq store'[e]]_vars
  /\ [](\A e \in Entities :
          /\ \A d1, d2 \in store[e] : d1.id = d2.id => d1 = d2
          /\ \A i \in Completed(e) :
               \E doc \in store[e] :
                 /\ doc.id = reqs[i].out[1].id
                 /\ toISOString(toDate(doc.data.created_at)) = reqs[i].out[1].created_at)

(* C14 witness: two assignments created in the same millisecond are two
   documents with different ids. *)
C14_Witness ==
  /\ Cardinality(store["assignments"]) = 2
  /\ \A d1, d2 \in store["assignments"] : d1.data.created_at = d2.data.created_at
  /\ Cardinality(Completed("assignments")) = 2

Ready == view.phase = "mounted" /\ ~view.loading /\ view.error = Undefined

FetchRank(v) ==
  CASE v.fetch = "idle" -> 0
    [] v.fetch = "sent" -> 1
    [] v.fetch = "responded" -> 2
    [] v.fetch = "done" -> 3

(* C15: the view sends its list request once (the request only moves on:
   not sent, sent, answered, applied); once it has left Loading it stays
   where it went, Ready or Error; it leaves Loading only by applying the
   outcome of the fetch; and in Ready a step changes the displayed sequence
   only by receiving one event, to that event's record followed by the
   previous sequence. *)
C15_ViewStateMachine ==
  /\ [][FetchRank(view') >= FetchRank(view)]_vars
  /\ [][~view.loading => ~view'.loading /\ view'.error = view.error]_vars
  /\ [][(view.loading /\ ~view'.loading) =>
          /\ view.fetch \in {"sent", "responded"} /\ view'.fetch = "done"
          /\ (view'.error = Undefined) = (view.fetch = "responded" /\ view.fres.status = 200)]_vars
  /\ [][(Ready /\ (view'.items # view.items \/ view'.received # view.received)) =>
          /\ view.inbox # <<>>
          /\ view'.received = Append(view.received, Head(view.inbox))
          /\ view'.items = <<Head(view.inbox)>> \o view.items
          /\ view'.fetch = view.fetch]_vars

(* C15 witness: a Ready view received two events and displays the later one
   first, above the earlier one and the fetched record. *)
C15_Witness ==
  /\ Ready
  /\ Len(view.received) = 2
  /\ view.items = <<view.received[2], view.received[1]>> \o view.fres.data

(* C16: when a mounted view has applied a successful fetch and then receives
   the event of a record the fetched snapshot contains, the record is in the
   displayed sequence twice. *)
C16_NoDeduplication ==
  [][(FetchSucceeded /\ Len(view'.received) = Len(view.received) + 1) =>
       LET r == view'.received[Len(view'.received)]
       IN r.id \in Ids(view.fres.data) =>
            /\ Count(view.items, r.id) = 1
            /\ Count(view'.items, r.id) = 2]_vars

(* C16 witness: one id is displayed at two positions. *)
C16_Witness ==
  /\ FetchSucceeded
  /\ \E i \in Ids(view.items) : Count(view.items, i) = 2

(* C17 as stated, in its most favourable case: every create handler has
   finished, the view is Ready, the events on its session (received or still
   queued) are in created_at order, and no record is both in the fetched
   snapshot and on the session; then the displayed sequence is ordered by
   created_at descending. *)
C17_AsStated ==
  (/\ Ready
   /\ \A i \in DOMAIN reqs : reqs[i].pc = "done"
   /\ \A a, b \in DOMAIN Events : a < b => IsoGeq(Events[b].created_at, Events[a].created_at)
   /\ Ids(Events) \cap Ids(view.fres.data) = {})
  => SortedDesc(view.items)

(* C18: a create answered 201 has its record on the entity's topic, once, and
   the record of the response is the published one; the step that answers 201
   is the step that publishes, and it is open to the handler as soon as the
   write is acknowledged, whatever the sessions have received. *)
C18_PublishedThenAnswered ==
  /\ [](\A i \in DOMAIN reqs :
          /\ reqs[i].status = 201 =>
               Cardinality({k \in DOMAIN published[reqs[i].ent] :
                              published[reqs[i].ent][k] = reqs[i].out[1]}) = 1
          /\ reqs[i].pc = "acked" => ENABLED PostResume(i))
  /\ [][\A i \in DOMAIN reqs :
          (reqs[i].status # 201 /\ reqs'[i].status = 201) =>
            published'[reqs[i].ent] = Append(published[reqs[i].ent], reqs'[i].out[1])]_vars

(* C18 witness: a create was answered 201 while its event is still queued,
   unreceived, on the view's session. *)
C18_Witness ==
  \E i \in Completed(view.ent) :
    /\ view.sock = "connected"
    /\ reqs[i].out[1] \in {view.inbox[k] : k \in DOMAIN view.inbox}

(* C19: when no create handler stands between the acknowledgment of its write
   and its emit, the records published on a topic are exactly the documents
   of the collection, as the list endpoint renders them, each published
   once. *)
C19_WrittenBroadcastOnce ==
  (\A i \in DOMAIN reqs : reqs[i].pc # "acked") =>
    \A e \in Entities :
      /\ {published[e][k] : k \in DOMAIN published[e]} = {Listed(e, doc) : doc \in store[e]}
      /\ Len(published[e]) = Cardinality(store[e])

(* C19 witness: every handler has finished, and each collection holds one
   document, published once. *)
C19_Witness ==
  /\ \A i \in DOMAIN reqs : reqs[i].pc = "done"
  /\ \A e \in Entities : Cardinality(store[e]) = 1 /\ Len(published[e]) = 1

(* The response to the request the form awaits has been sent. *)
Answered == form.call = "handled" /\ reqs[form.req].status # 0

(* C20: the loading flag is set exactly while the form awaits its create
   request; a step that ends a submission (the client-side check, a response,
   a network error) leaves the flag cleared and exactly one message set; a
   request is sent only by a form that awaits none; and once the response to
   the awaited request has been sent, the flag is eventually cleared with
   exactly one message set. *)
C20_LoadingWhileSubmitting ==
  /\ [](form.loading <=> form.call # "none")
  /\ [][(HandlerStep /\ ~form'.loading) => OneMessage(form')]_vars
  /\ [][(form'.call = "sent" /\ form.call # "sent") => (~form.loading /\ form.call = "none")]_vars
  /\ [][Len(reqs') > Len(reqs) => (form.call = "sent" /\ form'.call = "handled")]_vars
  /\ (Answered ~> (~form.loading /\ OneMessage(form)))

(* C20 witness: the second submission of a form is loading while its request,
   already answered 500 by the server, is on its way back. *)
C20_Witness ==
  /\ form.loading
  /\ Answered
  /\ reqs[form.req].status = 500
  /\ Len(reqs) = 2
  /\ reqs[1].status = 201

====
